---- MODULE Spec2Model ----
(***************************************************************************)
(* Cache-aside listing cache with signal-driven invalidation, in front of  *)
(* the Property table, with the cache_page response cache around the two   *)
(* list views, and the Redis metrics functions (snapshot, grade, reset,     *)
(* synthetic load sample).                                                 *)
(*                                                                         *)
(* A listing is identified by its primary key; created_at grows with the   *)
(* key, so "ordered by created_at descending" is "by key descending".      *)
(* Time advances in steps of TickSeconds; every cache entry carries its     *)
(* remaining time-to-live in seconds and is dropped when it runs out.      *)
(***************************************************************************)
EXTENDS Integers, Sequences, FiniteSets, TLC

\* ---------------------------------------------------------------- bounds
MaxId == 2          \* rows ever created
NumClients == 2     \* concurrent request handlers
MaxHits == 90       \* largest keyspace_hits the INFO reply carries
MaxMisses == 10     \* largest keyspace_misses the INFO reply carries
MaxSample == 3      \* largest sample_size of monitor_cache_performance

Clients == 1..NumClients
Ids == 1..MaxId

\* ------------------------------------------------------------- constants
ALL == "all_properties"
COUNT == "property_count"
\* cache_page stores a response under a key that carries the request's method
\* and the MD5 digests of its URL and of its varying headers
PAGE_JSON == "views.decorators.cache.cache_page..GET.md5(/properties/).md5()"
PAGE_HTML == "views.decorators.cache.cache_page..GET.md5(/properties/html/).md5()"
PageKeys == {PAGE_JSON, PAGE_HTML}
Keys == {ALL, COUNT} \cup PageKeys

PageCacheTTL == 60 * 15
AllPropertiesTTL == 3600
PropertyCountTTL == 1800
TickSeconds == PropertyCountTTL
AgeTickSeconds == AllPropertiesTTL \div 12

\* the request's two values, next to the cache keys, in the age bookkeeping
PROPS == "properties"
PCOUNT == "count"
AgeKeys == Keys \cup {PROPS, PCOUNT}

VARIABLES
    rows,       \* committed Property rows (set of primary keys)
    nextId,     \* next primary key the database assigns
    store,      \* the cache: key -> [val, ttl]; val is <<v>> or <<>>
    cl,         \* per request handler: operation, position, locals
    lastMut,    \* outcome of the most recent committed mutation's handler
    lastInv,    \* invalidate() calls in a row, no other operation since: "removed"
                \* or "nothing" after the first, "again" after one that followed
                \* "removed"
    sinceMut,   \* "fired": a receiver ran to its end and no getAll() wrote since;
                \* "read": a getAll() wrote since and its entry is still there
    mt,         \* the metrics caller: operation, position, locals, result
    probe,      \* the cache's test_monitor_<i> keys: i -> present
    age         \* seconds since the Repository read behind each cache entry, and
                \* behind the request's `properties` and `property_count`

vars == <<rows, nextId, store, cl, lastMut, lastInv, sinceMut, mt, probe, age>>

\* the variables of the listing cache, and those of the metrics collector
cvars == <<rows, nextId, store, cl, lastMut, lastInv, sinceMut>>
mvars == <<mt, probe>>
avars == <<age>>

\* Every call to the cache server or to the database either answers (TRUE)
\* or fails because the service is unreachable (FALSE).
Outcomes == BOOLEAN

\* ------------------------------------------------------------ cache store
NoEntry == [val |-> <<>>, ttl |-> 0]

Present_Never(s, k) == FALSE

\* cache.get(key) is not None
Present(s, k) == s[k].ttl > 0

CacheSet_Empty(s, k, v, timeout) == [s EXCEPT ![k] = [val |-> <<<<>>>>, ttl |-> timeout]]

CacheSet(s, k, v, timeout) == [s EXCEPT ![k] = [val |-> <<v>>, ttl |-> timeout]]

CacheDeleteResult_AlwaysTrue(s, k) == TRUE

\* cache.delete(key) is truthy exactly when the key existed
CacheDeleteResult(s, k) == Present(s, k)

CacheDelete_Clear(s, k) == [j \in Keys |-> NoEntry]

CacheDelete(s, k) == [s EXCEPT ![k] = NoEntry]

\* The name a key has in Redis, cut into pieces: the backend puts the key
\* prefix and version, ':1:', in front of the key the application uses.
RawKey(k) ==
    CASE k = ALL -> <<":1:", "all_properties">>
      [] k = COUNT -> <<":1:", "property_count">>
      [] k = PAGE_JSON ->
            <<":1:", "views.decorators.cache.cache_page.", ".GET.",
              "md5(/properties/)", ".", "md5()">>
      [] k = PAGE_HTML ->
            <<":1:", "views.decorators.cache.cache_page.", ".GET.",
              "md5(/properties/html/)", ".", "md5()">>

\* ':1:views.decorators.cache.cache_page.*properties*', cut the same way
PagePattern == <<":1:", "views.decorators.cache.cache_page.", "*", "properties", "*">>

\* delete_pattern puts the key prefix and version in front of the glob too
MakePattern(glob) == <<":1:">> \o glob

\* glob matching piece by piece: '*' stands for any run of pieces, every other
\* piece for itself
RECURSIVE GlobMatch(_, _)
GlobMatch(glob, name) ==
    IF glob = <<>> THEN name = <<>>
    ELSE IF Head(glob) = "*"
         THEN \/ GlobMatch(Tail(glob), name)
              \/ (name # <<>> /\ GlobMatch(glob, Tail(name)))
    ELSE name # <<>> /\ Head(name) = Head(glob) /\ GlobMatch(Tail(glob), Tail(name))

\* cache.delete_pattern(glob): the entries whose Redis name the glob matches
PatternKeys(s) ==
    {k \in Keys : Present(s, k) /\ GlobMatch(MakePattern(PagePattern), RawKey(k))}

CacheDeletePattern(s) == [k \in Keys |-> IF k \in PatternKeys(s) THEN NoEntry ELSE s[k]]

ExpireBy_Never(s, d) == s

\* d seconds later: what is left of each entry's time-to-live
ExpireBy(s, d) ==
    [k \in Keys |-> IF s[k].ttl > d
                    THEN [s[k] EXCEPT !.ttl = s[k].ttl - d]
                    ELSE NoEntry]

Expire(s) == ExpireBy(s, TickSeconds)

\* ------------------------------------------------------------- repository
RECURSIVE ListDesc(_)
ListDesc(S) ==
    IF S = {} THEN <<>>
    ELSE LET m == CHOOSE r \in S : \A q \in S : q <= r
         IN  <<m>> \o ListDesc(S \ {m})

RepoList(rs) == ListDesc(rs)
RepoCount(rs) == Cardinality(rs)

\* ---------------------------------------------------------------- clients
IdleRec ==
    [op |-> "none", pc |-> "idle", arg |-> 0, props |-> <<>>, count |-> 0,
     flag |-> FALSE, hi |-> 1, deleted |-> <<>>, present0 |-> {},
     err |-> "none", at |-> "none", sfail |-> FALSE, calls |-> 0, writes |-> 0, src |-> "none"]

Busy(c) == cl[c].pc \notin {"idle", "done"}

Begin(c, op, pc, arg) ==
    /\ ~Busy(c)
    /\ cl' = [cl EXCEPT ![c] = [IdleRec EXCEPT !.op = op, !.pc = pc, !.arg = arg]]

Fail_Swallow(c, e) == [cl[c] EXCEPT !.pc = "done", !.at = cl[c].pc]

\* an exception leaves the handler: the request ends with the error, raised at `at`
Fail(c, e) == [cl[c] EXCEPT !.pc = "done", !.err = e, !.at = cl[c].pc]

\* ------------------------------------------------------- metrics caller
ProbeIds == 0..(MaxSample - 1)

NoMetrics == [none |-> 0]

MtIdle ==
    [op |-> "none", pc |-> "idle", n |-> 0, i |-> 0, hits |-> 0, misses |-> 0,
     written |-> {}, sfail |-> FALSE, err |-> "none", at |-> "none",
     snap |-> NoMetrics, grade |-> "none", ok |-> FALSE, issued |-> FALSE,
     reply |-> "none", report |-> NoMetrics]

MtBusy == mt.pc \notin {"idle", "done"}

MtBegin(op, pc, n) ==
    /\ ~MtBusy
    /\ mt' = [MtIdle EXCEPT !.op = op, !.pc = pc, !.n = n]

\* an exception leaves the function: the call ends with the error, raised at `at`
MtRaise(e) == [mt EXCEPT !.pc = "done", !.err = e, !.at = mt.pc]

Init ==
    /\ rows = {}
    /\ nextId = 1
    /\ store = [k \in Keys |-> NoEntry]
    /\ cl = [c \in Clients |-> IdleRec]
    /\ lastMut = "none"
    /\ lastInv = "none"
    /\ sinceMut = "na"
    /\ mt = MtIdle
    /\ probe = [i \in ProbeIds |-> FALSE]
    /\ age = [k \in AgeKeys |-> 0]

\* ------------------------------------------------------------ environment
\* a receiver, or clearAll, is between its two cache.delete calls (consecutive
\* statements: no time-to-live runs out between them)
InHandlerLoop == \E c \in Clients : cl[c].pc \in {"h", "ca_keys"} /\ cl[c].hi > 1

\* TickSeconds pass; entries whose time-to-live ran out are gone
Tick ==
    /\ ~InHandlerLoop
    /\ \E k \in Keys : Present(store, k)
    /\ store' = Expire(store)
    /\ sinceMut' = IF sinceMut = "read" /\ ~Present(Expire(store), ALL)
                   THEN "na" ELSE sinceMut
    /\ UNCHANGED <<rows, nextId, cl, lastMut, lastInv>>

\* ------------------------------------------------- Listing Cache (utils)
AfterGetAll(op) ==
    CASE op = "list_json" -> "pg_set"
      [] op = "list_html" -> "gc_get"
      [] OTHER -> "done"

AfterGetCount(op) ==
    CASE op = "list_html" -> "pg_set"
      [] OTHER -> "done"

StartGetAll(c) ==
    /\ Begin(c, "getAll", "ga_get", 0)
    /\ lastInv' = "none"
    /\ UNCHANGED <<rows, nextId, store, lastMut, sinceMut>>

\* cache.get('all_properties'): a hit returns the cached sequence; a miss or
\* an unreachable store falls through to the repository
GetAllGet(c) ==
    /\ cl[c].pc = "ga_get"
    /\ \E sUp \in Outcomes :
        /\ cl' = [cl EXCEPT ![c] =
                    IF sUp /\ Present(store, ALL)
                    THEN [@ EXCEPT !.props = store[ALL].val[1], !.src = "cache",
                                   !.pc = AfterGetAll(cl[c].op)]
                    ELSE [@ EXCEPT !.sfail = @ \/ ~sUp, !.pc = "ga_list"]]
        /\ lastInv' = "none"
        /\ UNCHANGED <<rows, nextId, store, lastMut, sinceMut>>

\* Repository.list() ordered by created_at descending
GetAllList(c) ==
    /\ cl[c].pc = "ga_list"
    /\ \E rUp \in Outcomes :
        /\ cl' = [cl EXCEPT ![c] =
                    IF rUp
                    THEN [@ EXCEPT !.props = RepoList(rows), !.calls = @ + 1,
                                   !.src = "repo", !.pc = "ga_set"]
                    ELSE Fail(c, "RepositoryUnavailable")]
        /\ lastInv' = "none"
        /\ UNCHANGED <<rows, nextId, store, lastMut, sinceMut>>

\* cache.set('all_properties', properties, 3600); a store failure is swallowed
GetAllSet(c) ==
    /\ cl[c].pc = "ga_set"
    /\ \E sUp \in Outcomes :
        /\ store' = IF sUp
                    THEN CacheSet(store, ALL, cl[c].props, AllPropertiesTTL)
                    ELSE store
        /\ cl' = [cl EXCEPT ![c] =
                    [@ EXCEPT !.writes = IF sUp THEN @ + 1 ELSE @,
                              !.sfail = @ \/ ~sUp,
                              !.pc = AfterGetAll(cl[c].op)]]
        /\ lastInv' = "none"
        /\ sinceMut' = IF sinceMut = "fired" THEN (IF sUp THEN "read" ELSE "na")
                       ELSE sinceMut
        /\ UNCHANGED <<rows, nextId, lastMut>>

StartGetCount(c) ==
    /\ Begin(c, "getCount", "gc_get", 0)
    /\ lastInv' = "none"
    /\ UNCHANGED <<rows, nextId, store, lastMut, sinceMut>>

GetCountGet(c) ==
    /\ cl[c].pc = "gc_get"
    /\ \E sUp \in Outcomes :
        /\ cl' = [cl EXCEPT ![c] =
                    IF sUp /\ Present(store, COUNT)
                    THEN [@ EXCEPT !.count = store[COUNT].val[1],
                                   !.pc = AfterGetCount(cl[c].op)]
                    ELSE [@ EXCEPT !.sfail = @ \/ ~sUp, !.pc = "gc_count"]]
        /\ UNCHANGED <<rows, nextId, store, lastMut, lastInv, sinceMut>>

GetCountCount(c) ==
    /\ cl[c].pc = "gc_count"
    /\ \E rUp \in Outcomes :
        /\ cl' = [cl EXCEPT ![c] =
                    IF rUp
                    THEN [@ EXCEPT !.count = RepoCount(rows), !.calls = @ + 1,
                                   !.pc = "gc_set"]
                    ELSE Fail(c, "RepositoryUnavailable")]
        /\ UNCHANGED <<rows, nextId, store, lastMut, lastInv, sinceMut>>

GetCountSet(c) ==
    /\ cl[c].pc = "gc_set"
    /\ \E sUp \in Outcomes :
        /\ store' = IF sUp
                    THEN CacheSet(store, COUNT, cl[c].count, PropertyCountTTL)
                    ELSE store
        /\ cl' = [cl EXCEPT ![c] =
                    [@ EXCEPT !.writes = IF sUp THEN @ + 1 ELSE @,
                              !.sfail = @ \/ ~sUp,
                              !.pc = AfterGetCount(cl[c].op)]]
        /\ UNCHANGED <<rows, nextId, lastMut, lastInv, sinceMut>>

StartInvalidate(c) ==
    /\ Begin(c, "invalidate", "inv", 0)
    /\ UNCHANGED <<rows, nextId, store, lastMut, lastInv, sinceMut>>

\* clear_properties_cache(): delete 'all_properties', report whether it was there
Invalidate(c) ==
    /\ cl[c].pc = "inv"
    /\ \E sUp \in Outcomes :
        /\ store' = IF sUp THEN CacheDelete(store, ALL) ELSE store
        /\ LET r == sUp /\ CacheDeleteResult(store, ALL)
           IN  /\ cl' = [cl EXCEPT ![c] = [@ EXCEPT !.flag = r, !.sfail = ~sUp, !.pc = "done"]]
               /\ lastInv' = IF ~sUp THEN "none"
                             ELSE IF lastInv = "none"
                                  THEN (IF r THEN "removed" ELSE "nothing")
                             ELSE IF lastInv = "removed" THEN "again"
                             ELSE lastInv
               /\ sinceMut' = IF sUp /\ sinceMut = "read" THEN "na" ELSE sinceMut
        /\ UNCHANGED <<rows, nextId, lastMut>>

\* --------------------------------------- Invalidation Dispatcher (signals)
CacheKeysToDelete_OnlyAll == <<ALL>>

CacheKeysToDelete_OnlyCount == <<COUNT>>

CacheKeysToDelete == <<ALL, COUNT>>

\* where the request continues once the receiver has returned
AfterHandler(op) ==
    CASE op = "create" -> "cr_view"
      [] op = "delete" -> "dl_commit"
      [] OTHER -> "done"

\* One turn of the receiver's loop: `if cache.delete(key): deleted_keys.append(key)`.
\* The receiver catches nothing, so an unreachable store raises out of the
\* signal dispatch and out of save()/delete(): after save() the row is already
\* committed; delete() sends post_delete inside its transaction, which rolls back.
HandlerStep(c) ==
    /\ cl[c].pc = "h"
    /\ \E sUp \in Outcomes :
        /\ LET key == CacheKeysToDelete[cl[c].hi]
               last == cl[c].hi >= Len(CacheKeysToDelete)
               seen == IF cl[c].hi = 1
                       THEN {k \in {ALL, COUNT} : Present(store, k)}
                       ELSE cl[c].present0
           IN  IF sUp
               THEN /\ store' = CacheDelete(store, key)
                    /\ cl' = [cl EXCEPT ![c] =
                                [@ EXCEPT !.deleted = IF CacheDeleteResult(store, key)
                                                      THEN Append(@, key) ELSE @,
                                          !.present0 = seen,
                                          !.hi = @ + 1,
                                          !.pc = IF last THEN AfterHandler(cl[c].op) ELSE "h"]]
                    /\ lastMut' = IF last /\ cl[c].op \in {"create", "update"}
                                  THEN "ok" ELSE lastMut
                    /\ sinceMut' = IF last THEN "fired"
                                   ELSE IF sinceMut = "read" THEN "na" ELSE sinceMut
               ELSE /\ store' = store
                    /\ cl' = [cl EXCEPT ![c] = Fail(c, "StoreUnavailable")]
                    /\ lastMut' = IF cl[c].op \in {"create", "update"}
                                  THEN "failed" ELSE lastMut
                    /\ sinceMut' = "na"
        /\ UNCHANGED <<rows, nextId, lastInv>>

\* ------------------------------------------------------- mutations (views)
StartCreate(c) ==
    /\ nextId + Cardinality({d \in Clients : cl[d].pc = "cr_commit"}) <= MaxId
    /\ Begin(c, "create", "cr_commit", 0)
    /\ lastInv' = "none"
    /\ UNCHANGED <<rows, nextId, store, lastMut, sinceMut>>

\* Property.objects.create(...): the INSERT commits, then post_save is sent
CreateCommit(c) ==
    /\ cl[c].pc = "cr_commit"
    /\ \E rUp \in Outcomes :
        /\ IF rUp
           THEN /\ rows' = rows \cup {nextId}
                /\ nextId' = nextId + 1
                /\ cl' = [cl EXCEPT ![c] = [@ EXCEPT !.arg = nextId, !.pc = "h"]]
           ELSE /\ cl' = [cl EXCEPT ![c] = Fail(c, "RepositoryUnavailable")]
                /\ UNCHANGED <<rows, nextId>>
        /\ UNCHANGED <<store, lastMut, lastInv, sinceMut>>

\* 'cache_cleared': cache.get('all_properties') is None
CreateView(c) ==
    /\ cl[c].pc = "cr_view"
    /\ \E sUp \in Outcomes :
        /\ cl' = [cl EXCEPT ![c] =
                    IF sUp
                    THEN [@ EXCEPT !.flag = ~Present(store, ALL), !.pc = "done"]
                    ELSE Fail(c, "StoreUnavailable")]
        /\ UNCHANGED <<rows, nextId, store, lastMut, lastInv, sinceMut>>

StartUpdate(c) ==
    /\ \E i \in rows : Begin(c, "update", "up_commit", i)
    /\ lastInv' = "none"
    /\ UNCHANGED <<rows, nextId, store, lastMut, sinceMut>>

\* save() of an existing row: the UPDATE commits, then post_save (created=False)
UpdateCommit(c) ==
    /\ cl[c].pc = "up_commit"
    /\ \E rUp \in Outcomes :
        /\ cl' = [cl EXCEPT ![c] =
                    IF rUp THEN [@ EXCEPT !.pc = "h"]
                    ELSE Fail(c, "RepositoryUnavailable")]
        /\ UNCHANGED <<rows, nextId, store, lastMut, lastInv, sinceMut>>

StartDelete(c) ==
    /\ \E i \in Ids : Begin(c, "delete", "dl_lookup", i)
    /\ lastInv' = "none"
    /\ UNCHANGED <<rows, nextId, store, lastMut, sinceMut>>

\* Property.objects.get(id=property_id); DoesNotExist becomes the 404 response
DeleteLookup(c) ==
    /\ cl[c].pc = "dl_lookup"
    /\ \E rUp \in Outcomes :
        /\ cl' = [cl EXCEPT ![c] =
                    IF ~rUp THEN Fail(c, "RepositoryUnavailable")
                    ELSE IF cl[c].arg \notin rows THEN Fail(c, "NotFound")
                    ELSE [@ EXCEPT !.pc = "dl_before"]]
        /\ UNCHANGED <<rows, nextId, store, lastMut, lastInv, sinceMut>>

\* cache_before = cache.get('all_properties') is not None
DeleteBefore(c) ==
    /\ cl[c].pc = "dl_before"
    /\ \E sUp \in Outcomes :
        /\ cl' = [cl EXCEPT ![c] =
                    IF sUp
                    THEN [@ EXCEPT !.flag = Present(store, ALL), !.pc = "h"]
                    ELSE Fail(c, "StoreUnavailable")]
        /\ UNCHANGED <<rows, nextId, store, lastMut, lastInv, sinceMut>>

\* property.delete(): the transaction that ran the receiver commits the DELETE
DeleteCommit(c) ==
    /\ cl[c].pc = "dl_commit"
    /\ \E rUp \in Outcomes :
        /\ IF rUp
           THEN /\ rows' = rows \ {cl[c].arg}
                /\ cl' = [cl EXCEPT ![c] = [@ EXCEPT !.pc = "dl_after"]]
                /\ lastMut' = "ok"
           ELSE /\ cl' = [cl EXCEPT ![c] = Fail(c, "RepositoryUnavailable")]
                /\ UNCHANGED <<rows, lastMut>>
        /\ UNCHANGED <<nextId, store, lastInv, sinceMut>>

\* cache_after; 'cache_cleared': cache_before and not cache_after
DeleteAfter(c) ==
    /\ cl[c].pc = "dl_after"
    /\ \E sUp \in Outcomes :
        /\ cl' = [cl EXCEPT ![c] =
                    IF sUp
                    THEN [@ EXCEPT !.flag = @ /\ ~Present(store, ALL), !.pc = "done"]
                    ELSE Fail(c, "StoreUnavailable")]
        /\ UNCHANGED <<rows, nextId, store, lastMut, lastInv, sinceMut>>

\* ------------------------------------------- Outer Response Cache (views)
PageKey(op) == IF op = "list_json" THEN PAGE_JSON ELSE PAGE_HTML

StartList(c) ==
    /\ \E op \in {"list_json", "list_html"} : Begin(c, op, "pg_get", 0)
    /\ lastInv' = "none"
    /\ UNCHANGED <<rows, nextId, store, lastMut, sinceMut>>

\* @cache_page(60 * 15), request side: serve the stored response, or run the
\* view; the backend raises when the store is unreachable and nothing catches it
PageGet(c) ==
    /\ cl[c].pc = "pg_get"
    /\ \E sUp \in Outcomes :
        /\ LET k == PageKey(cl[c].op)
           IN  cl' = [cl EXCEPT ![c] =
                        IF ~sUp THEN Fail(c, "StoreUnavailable")
                        ELSE IF Present(store, k)
                        THEN [@ EXCEPT !.props = store[k].val[1].properties,
                                       !.count = store[k].val[1].count,
                                       !.src = "page", !.pc = "done"]
                        ELSE [@ EXCEPT !.pc = "ga_get"]]
        /\ UNCHANGED <<rows, nextId, store, lastMut, lastInv, sinceMut>>

\* the view builds its response ('count': len(properties_data) in the JSON
\* view, get_property_count() in the HTML view); cache_page stores it
PageSet(c) ==
    /\ cl[c].pc = "pg_set"
    /\ \E sUp \in Outcomes :
        /\ LET n == IF cl[c].op = "list_json" THEN Len(cl[c].props) ELSE cl[c].count
               resp == [properties |-> cl[c].props, count |-> n]
           IN  IF sUp
               THEN /\ store' = CacheSet(store, PageKey(cl[c].op), resp, PageCacheTTL)
                    /\ cl' = [cl EXCEPT ![c] =
                                [@ EXCEPT !.count = n, !.writes = @ + 1, !.pc = "done"]]
               ELSE /\ store' = store
                    /\ cl' = [cl EXCEPT ![c] = Fail(c, "StoreUnavailable")]
        /\ UNCHANGED <<rows, nextId, lastMut, lastInv, sinceMut>>

\* ----------------------------------------------------- clearAll (signals)
\* arg: 1 when the cache backend has a delete_pattern method, 0 when not
StartClearAll(c) ==
    /\ \E has_delete_pattern \in BOOLEAN :
        Begin(c, "clearAll", "ca_keys", IF has_delete_pattern THEN 1 ELSE 0)
    /\ lastInv' = "none"
    /\ UNCHANGED <<rows, nextId, store, lastMut, sinceMut>>

\* for key in ['all_properties', 'property_count']: if cache.delete(key): cleared_count += 1
ClearAllKeys(c) ==
    /\ cl[c].pc = "ca_keys"
    /\ \E sUp \in Outcomes :
        /\ LET key == <<ALL, COUNT>>[cl[c].hi]
           IN  IF sUp
               THEN /\ store' = CacheDelete(store, key)
                    /\ cl' = [cl EXCEPT ![c] =
                                [@ EXCEPT !.count = IF CacheDeleteResult(store, key)
                                                    THEN @ + 1 ELSE @,
                                          !.present0 =
                                                IF cl[c].hi = 1
                                                THEN {k \in {ALL, COUNT} : Present(store, k)}
                                                ELSE @,
                                          !.hi = @ + 1,
                                          !.pc = IF cl[c].hi >= 2 THEN "ca_pattern"
                                                 ELSE "ca_keys"]]
                    /\ sinceMut' = IF sinceMut = "read" /\ key = ALL
                                   THEN "na" ELSE sinceMut
               ELSE /\ store' = store
                    /\ cl' = [cl EXCEPT ![c] = Fail(c, "StoreUnavailable")]
                    /\ sinceMut' = sinceMut
        /\ UNCHANGED <<rows, nextId, lastMut, lastInv>>

\* if hasattr(cache, 'delete_pattern'): deleted = cache.delete_pattern(...);
\* cleared_count += deleted; without the method the step is skipped;
\* return cleared_count
ClearAllPattern(c) ==
    /\ cl[c].pc = "ca_pattern"
    /\ \E sUp \in Outcomes :
        /\ IF cl[c].arg = 0
           THEN /\ store' = store
                /\ cl' = [cl EXCEPT ![c] = [@ EXCEPT !.pc = "done"]]
           ELSE IF sUp
           THEN /\ store' = CacheDeletePattern(store)
                /\ cl' = [cl EXCEPT ![c] =
                            [@ EXCEPT !.count = @ + Cardinality(PatternKeys(store)),
                                      !.pc = "done"]]
           ELSE /\ store' = store
                /\ cl' = [cl EXCEPT ![c] = Fail(c, "StoreUnavailable")]
        /\ UNCHANGED <<rows, nextId, lastMut, lastInv, sinceMut>>

\* ------------------------------------------- Metrics Collector (utils)
RECURSIVE Gcd(_, _)
Gcd(a, b) == IF b = 0 THEN a ELSE Gcd(b, a % b)

TrueDiv_Floor(a, b) == <<a \div b, 1>>

\* a / b for b > 0: the quotient as a fraction <<numerator, denominator>> in
\* lowest terms (the float the code computes is this value rounded to 53 bits)
TrueDiv(a, b) == LET g == Gcd(a, b) IN <<a \div g, b \div g>>

\* the literal 0.0
Zero == <<0, 1>>

Geq_Strict(r, t) == r[1] * t[2] > t[1] * r[2]

\* r >= t
Geq(r, t) == r[1] * t[2] >= t[1] * r[2]

\* dict.get(key, default)
DictGet(d, k, default) == IF k \in DOMAIN d THEN d[k] ELSE default

\* what redis_conn.info() can answer: with or without a 'stats' section
InfoReplies ==
    {[redis_version |-> "unknown"]} \cup
    {[stats |-> [keyspace_hits |-> h, keyspace_misses |-> m]] :
        h \in 0..MaxHits, m \in 0..MaxMisses}

\* the metrics dictionary built from the INFO reply
Metrics(redis_info) ==
    LET stats_section == DictGet(redis_info, "stats", <<>>)
        keyspace_hits == DictGet(stats_section, "keyspace_hits", 0)
        keyspace_misses == DictGet(stats_section, "keyspace_misses", 0)
        total_operations == keyspace_hits + keyspace_misses
    IN  [hits |-> keyspace_hits,
         misses |-> keyspace_misses,
         hit_ratio |-> IF total_operations > 0
                       THEN TrueDiv(keyspace_hits, total_operations) ELSE Zero,
         miss_ratio |-> IF total_operations > 0
                        THEN TrueDiv(keyspace_misses, total_operations) ELSE Zero,
         total_operations |-> total_operations,
         keyspace_hits |-> keyspace_hits,
         keyspace_misses |-> keyspace_misses]

ErrorMetrics_NoError(e) ==
    [hits |-> 0, misses |-> 0, hit_ratio |-> Zero, miss_ratio |-> Zero,
     total_operations |-> 0, keyspace_hits |-> 0, keyspace_misses |-> 0]

\* the default metrics returned from the except branch
ErrorMetrics(e) ==
    [hits |-> 0, misses |-> 0, hit_ratio |-> Zero, miss_ratio |-> Zero,
     total_operations |-> 0, keyspace_hits |-> 0, keyspace_misses |-> 0,
     error |-> e]

\* the if/elif chain of get_cache_effectiveness
Grade(hit_ratio) ==
    IF Geq(hit_ratio, <<9, 10>>) THEN "A+"
    ELSE IF Geq(hit_ratio, <<8, 10>>) THEN "A"
    ELSE IF Geq(hit_ratio, <<7, 10>>) THEN "B"
    ELSE IF Geq(hit_ratio, <<5, 10>>) THEN "C"
    ELSE IF Geq(hit_ratio, <<3, 10>>) THEN "D"
    ELSE "F"

\* get_cache_effectiveness() calls get_redis_cache_metrics() and grades its result
AfterMetrics(op) == IF op = "effectiveness" THEN "ef_grade" ELSE "done"

StartSnapshot ==
    /\ MtBegin("snapshot", "sn_conn", 0)
    /\ UNCHANGED probe

StartEffectiveness ==
    /\ MtBegin("effectiveness", "sn_conn", 0)
    /\ UNCHANGED probe

\* redis_conn = get_redis_connection("default"), inside the try
SnapshotConn ==
    /\ mt.pc = "sn_conn"
    /\ \E sUp \in Outcomes :
        mt' = IF sUp THEN [mt EXCEPT !.pc = "sn_info"]
              ELSE [mt EXCEPT !.snap = ErrorMetrics("connection"), !.sfail = TRUE,
                              !.at = mt.pc, !.pc = AfterMetrics(mt.op)]
    /\ UNCHANGED probe

\* redis_info = redis_conn.info() and the computation on it, inside the try
SnapshotInfo ==
    /\ mt.pc = "sn_info"
    /\ \/ \E redis_info \in InfoReplies :
            mt' = [mt EXCEPT !.snap = Metrics(redis_info), !.reply = redis_info,
                             !.pc = AfterMetrics(mt.op)]
       \/ mt' = [mt EXCEPT !.snap = ErrorMetrics("info"), !.sfail = TRUE,
                           !.at = mt.pc, !.pc = AfterMetrics(mt.op)]
    /\ UNCHANGED probe

EffectivenessGrade ==
    /\ mt.pc = "ef_grade"
    /\ mt' = [mt EXCEPT !.grade = Grade(mt.snap.hit_ratio), !.pc = "done"]
    /\ UNCHANGED probe

StartReset ==
    /\ MtBegin("reset", "rs_conn", 0)
    /\ UNCHANGED probe

ResetReturn_True(raised) == TRUE

\* `return True` at the end of the try, `return False` from the except branch
ResetReturn(raised) == ~raised

ResetConn ==
    /\ mt.pc = "rs_conn"
    /\ \E sUp \in Outcomes :
        mt' = IF sUp THEN [mt EXCEPT !.pc = "rs_cmd"]
              ELSE [mt EXCEPT !.ok = ResetReturn(TRUE), !.sfail = TRUE,
                              !.at = mt.pc, !.pc = "done"]
    /\ UNCHANGED probe

\* redis_conn.config_resetstat(): the server answers OK, or rejects the command,
\* or cannot be reached
ResetCommand ==
    /\ mt.pc = "rs_cmd"
    /\ \E answer \in {"OK", "rejected", "unreachable"} :
        mt' = [mt EXCEPT !.issued = (answer # "unreachable"),
                         !.reply = answer,
                         !.ok = ResetReturn(answer # "OK"),
                         !.sfail = (answer # "OK"),
                         !.at = IF answer # "OK" THEN mt.pc ELSE @,
                         !.pc = "done"]
    /\ UNCHANGED probe

ProbeSet(p, i) == [p EXCEPT ![i] = TRUE]

ProbeDelete_Noop(p, i) == p

\* cache.delete(f'test_monitor_{i}')
ProbeDelete(p, i) == [p EXCEPT ![i] = FALSE]

\* the next turn of a `for i in range(sample_size)` loop, or what follows it
MonitorAdvance(m, again, after) ==
    [m EXCEPT !.i = IF m.i + 1 < m.n THEN m.i + 1 ELSE 0,
              !.pc = IF m.i + 1 < m.n THEN again ELSE after]

StartMonitor ==
    /\ \E n \in 0..MaxSample :
        MtBegin("monitor", IF n > 0 THEN "mp_get" ELSE "mp_stats", n)
    /\ UNCHANGED probe

\* value = cache.get(key); a miss is counted and goes on to the set, a hit is
\* counted; no try around the loop: an unreachable store raises out of the call
MonitorGet ==
    /\ mt.pc = "mp_get"
    /\ \E sUp \in Outcomes :
        mt' = IF ~sUp THEN [MtRaise("StoreUnavailable") EXCEPT !.sfail = TRUE]
              ELSE IF probe[mt.i]
              THEN MonitorAdvance([mt EXCEPT !.hits = @ + 1], "mp_get", "mp_stats")
              ELSE [mt EXCEPT !.misses = @ + 1, !.pc = "mp_set"]
    /\ UNCHANGED probe

\* cache.set(key, f'value_{i}', 60)
MonitorSet ==
    /\ mt.pc = "mp_set"
    /\ \E sUp \in Outcomes :
        IF sUp
        THEN /\ probe' = ProbeSet(probe, mt.i)
             /\ mt' = MonitorAdvance([mt EXCEPT !.written = @ \cup {mt.i}],
                                     "mp_get", "mp_stats")
        ELSE /\ probe' = probe
             /\ mt' = [MtRaise("StoreUnavailable") EXCEPT !.sfail = TRUE]

\* average_response_time = total_time / sample_size, then the two ratios
MonitorStats ==
    /\ mt.pc = "mp_stats"
    /\ mt' = IF mt.n = 0 THEN MtRaise("ZeroDivisionError")
             ELSE [mt EXCEPT !.report =
                                [cache_hits |-> mt.hits,
                                 cache_misses |-> mt.misses,
                                 tests_performed |-> mt.n,
                                 hit_ratio |-> TrueDiv(mt.hits, mt.n),
                                 miss_ratio |-> TrueDiv(mt.misses, mt.n)],
                             !.i = 0, !.pc = "mp_del"]
    /\ UNCHANGED probe

\* the clean-up loop, one cache.delete per turn
MonitorDelete ==
    /\ mt.pc = "mp_del"
    /\ \E sUp \in Outcomes :
        IF sUp
        THEN /\ probe' = ProbeDelete(probe, mt.i)
             /\ mt' = MonitorAdvance(mt, "mp_del", "done")
        ELSE /\ probe' = probe
             /\ mt' = [MtRaise("StoreUnavailable") EXCEPT !.sfail = TRUE]

\* the 60 s time-to-live of a probe key runs out
ProbeExpire ==
    /\ \E i \in ProbeIds : probe[i] /\ probe' = ProbeDelete(probe, i)
    /\ UNCHANGED mt

\* ---------------------------------------------------------- specification
ClientStep(c) ==
    \/ StartGetAll(c) \/ GetAllGet(c) \/ GetAllList(c) \/ GetAllSet(c)
    \/ StartGetCount(c) \/ GetCountGet(c) \/ GetCountCount(c) \/ GetCountSet(c)
    \/ StartInvalidate(c) \/ Invalidate(c)
    \/ HandlerStep(c)
    \/ StartCreate(c) \/ CreateCommit(c) \/ CreateView(c)
    \/ StartUpdate(c) \/ UpdateCommit(c)
    \/ StartDelete(c) \/ DeleteLookup(c) \/ DeleteBefore(c)
    \/ DeleteCommit(c) \/ DeleteAfter(c)
    \/ StartList(c) \/ PageGet(c) \/ PageSet(c)
    \/ StartClearAll(c) \/ ClearAllKeys(c) \/ ClearAllPattern(c)

Env == Tick

\* one request at a time: every operation, every failure, time passing
SeqNext == (ClientStep(1) \/ Env) /\ UNCHANGED <<mvars, avars>>

SpecSeq == Init /\ [][SeqNext]_vars

\* readers and writers interleaved, step by step
RaceStep(c) ==
    \/ StartGetAll(c) \/ GetAllGet(c) \/ GetAllList(c) \/ GetAllSet(c)
    \/ HandlerStep(c)
    \/ StartCreate(c) \/ CreateCommit(c) \/ CreateView(c)
    \/ StartDelete(c) \/ DeleteLookup(c) \/ DeleteBefore(c)
    \/ DeleteCommit(c) \/ DeleteAfter(c)

Next == ((\E c \in Clients : RaceStep(c)) \/ Env) /\ UNCHANGED <<mvars, avars>>

Spec == Init /\ [][Next]_vars

MetricsStep ==
    \/ StartSnapshot \/ StartEffectiveness \/ SnapshotConn \/ SnapshotInfo
    \/ EffectivenessGrade
    \/ StartReset \/ ResetConn \/ ResetCommand
    \/ StartMonitor \/ MonitorGet \/ MonitorSet \/ MonitorStats \/ MonitorDelete

\* the metrics functions called one at a time, probe keys expiring in between
MetricsNext == (MetricsStep \/ ProbeExpire) /\ UNCHANGED <<cvars, avars>>

SpecMetrics == Init /\ [][MetricsNext]_vars

\* concurrent readers over a Repository no mutation touches: getAll() and the
\* clear-cache endpoint, step by step, time passing
ReadersInit ==
    /\ rows \in SUBSET Ids
    /\ nextId = MaxId + 1
    /\ store = [k \in Keys |-> NoEntry]
    /\ cl = [c \in Clients |-> IdleRec]
    /\ lastMut = "none"
    /\ lastInv = "none"
    /\ sinceMut = "na"
    /\ mt = MtIdle
    /\ probe = [i \in ProbeIds |-> FALSE]
    /\ age = [k \in AgeKeys |-> 0]

ReaderStep(c) ==
    \/ StartGetAll(c) \/ GetAllGet(c) \/ GetAllList(c) \/ GetAllSet(c)
    \/ StartInvalidate(c) \/ Invalidate(c)

ReadersNext == ((\E c \in Clients : ReaderStep(c)) \/ Env) /\ UNCHANGED <<mvars, avars>>

SpecReaders == ReadersInit /\ [][ReadersNext]_vars

\* ------------------------------------------------- age of the data served
Max(a, b) == IF a >= b THEN a ELSE b

\* what a step of request handler c does to the ages: a Repository read is
\* fresh, a cache hit hands on the entry's age, a cache write stores the age
\* of the value written, an absent entry has none
AgeAfter(c) ==
    LET pre == cl[c]
        post == cl'[c]
        began == pre.pc \in {"idle", "done"} /\ post.pc \notin {"idle", "done"}
        wrote == post.writes > pre.writes
        page == PageKey(pre.op)
    IN  [k \in AgeKeys |->
            CASE k = PROPS ->
                    IF began \/ (pre.pc = "ga_list" /\ post.pc = "ga_set") THEN 0
                    ELSE IF pre.pc = "pg_get" /\ post.src = "page" THEN age[page]
                    ELSE IF pre.pc = "ga_get" /\ post.src = "cache" THEN age[ALL]
                    ELSE age[k]
              [] k = PCOUNT ->
                    IF began \/ (pre.pc = "gc_count" /\ post.pc = "gc_set") THEN 0
                    ELSE IF pre.pc = "pg_get" /\ post.src = "page" THEN age[page]
                    ELSE IF pre.pc = "gc_get" /\ post.pc = AfterGetCount(pre.op)
                    THEN age[COUNT]
                    ELSE age[k]
              [] OTHER ->
                    IF ~Present(store', k) THEN 0
                    ELSE IF k = ALL /\ pre.pc = "ga_set" /\ wrote THEN age[PROPS]
                    ELSE IF k = COUNT /\ pre.pc = "gc_set" /\ wrote THEN age[PCOUNT]
                    ELSE IF k = page /\ pre.pc = "pg_set" /\ wrote
                    THEN (IF pre.op = "list_html" THEN Max(age[PROPS], age[PCOUNT])
                          ELSE age[PROPS])
                    ELSE age[k]]

\* the list endpoints and the clear-cache endpoint, one request at a time
AgeStep(c) ==
    \/ StartList(c) \/ PageGet(c) \/ PageSet(c)
    \/ GetAllGet(c) \/ GetAllList(c) \/ GetAllSet(c)
    \/ GetCountGet(c) \/ GetCountCount(c) \/ GetCountSet(c)
    \/ StartInvalidate(c) \/ Invalidate(c)

\* AgeTickSeconds pass between two requests
AgeTick ==
    /\ \A c \in Clients : ~Busy(c)
    /\ \E k \in Keys : Present(store, k)
    /\ store' = ExpireBy(store, AgeTickSeconds)
    /\ sinceMut' = IF sinceMut = "read" /\ ~Present(store', ALL) THEN "na" ELSE sinceMut
    /\ age' = [k \in AgeKeys |->
                IF k \in Keys
                THEN (IF Present(store', k) THEN age[k] + AgeTickSeconds ELSE 0)
                ELSE age[k]]
    /\ UNCHANGED <<rows, nextId, cl, lastMut, lastInv>>

AgeNext == ((AgeStep(1) /\ age' = AgeAfter(1)) \/ AgeTick) /\ UNCHANGED mvars

SpecAge == Init /\ [][AgeNext]_vars

\* a list request and a create, interleaved step by step, time passing
ListRequestStep(c) ==
    \/ StartList(c) \/ PageGet(c) \/ PageSet(c)
    \/ GetAllGet(c) \/ GetAllList(c) \/ GetAllSet(c)
    \/ GetCountGet(c) \/ GetCountCount(c) \/ GetCountSet(c)

WriteRequestStep(c) ==
    \/ StartCreate(c) \/ CreateCommit(c) \/ CreateView(c)
    \/ HandlerStep(c)

ListNext ==
    (ListRequestStep(1) \/ WriteRequestStep(NumClients) \/ Env)
        /\ UNCHANGED <<mvars, avars>>

SpecList == Init /\ [][ListNext]_vars

\* ================================================================ claims
MutationOps == {"create", "update", "delete"}
ReadOps == {"getAll", "list_json", "list_html"}
UpToHandler == {"cr_commit", "up_commit", "dl_lookup", "dl_before", "h"}
Done(c, op) == cl[c].pc = "done" /\ cl[c].op = op

\* the receiver has run to its end in this request
HandlerReturned(c) ==
    /\ cl[c].op \in MutationOps
    /\ cl[c].pc \notin UpToHandler
    /\ ~(cl[c].pc = "done" /\ cl[c].at \in UpToHandler)

\* create()/save()/delete() has returned to the view
MutationReturned(c) ==
    /\ HandlerReturned(c)
    /\ cl[c].pc # "dl_commit"
    /\ ~(cl[c].pc = "done" /\ cl[c].at = "dl_commit")

\* C1: with requests run one at a time, once the latest mutation's receiver ran
\* without a store failure, every getAll() returns the Repository's current
\* listing sequence and every getCount() its current count.
C1_ReadsFreshAfterMutation ==
    \A c \in Clients :
        (cl[c].pc = "done" /\ cl[c].err = "none" /\ lastMut = "ok") =>
            /\ (cl[c].op = "getAll" => cl[c].props = RepoList(rows))
            /\ (cl[c].op = "getCount" => cl[c].count = RepoCount(rows))

C1_Witness ==
    \E c \in Clients :
        /\ Done(c, "getCount") /\ cl[c].err = "none" /\ lastMut = "ok"
        /\ cl[c].count = 1 /\ nextId > 2

\* C2: with readers and writers interleaved, once the mutation has returned and
\* every in-flight request has finished, a present `all_properties` entry
\* equals the Repository's listing sequence.
C2_NoStaleEntrySurvives ==
    ((\A c \in Clients : ~Busy(c)) /\ lastMut = "ok" /\ Present(store, ALL)) =>
        store[ALL].val[1] = RepoList(rows)

\* C3 (as claimed): when a mutation call returns, no Outer Response Cache entry
\* is left in the Cache Store.
C3_WriteSweepsOuterCache ==
    \A c \in Clients :
        MutationReturned(c) => \A k \in PageKeys : ~Present(store, k)

\* C3 (amended): when a mutation call returns, `all_properties` and
\* `property_count` are absent; the receiver leaves every Outer Response Cache
\* entry as it was, and an outer entry goes away only by expiry or by
\* clearAll()'s pattern delete.
C3_WriteClearsInnerKeysOnly ==
    [][\A c \in Clients :
        /\ (cl[c].pc = "h" /\ cl'[c] # cl[c]) =>
                \A k \in PageKeys : store'[k] = store[k]
        /\ MutationReturned(c)' =>
                (store'[ALL].ttl = 0 /\ store'[COUNT].ttl = 0)
        /\ \A k \in PageKeys :
                (store[k].ttl > 0 /\ store'[k].ttl = 0) =>
                    (cl' = cl \/ \E d \in Clients : cl[d].pc = "ca_pattern")
      ]_vars

C3_Witness ==
    \E c \in Clients :
        /\ MutationReturned(c) /\ cl[c].op \in {"create", "delete"}
        /\ store[PAGE_JSON].ttl > 0
        /\ store[PAGE_JSON].val[1].properties # RepoList(rows)

\* C4: when the save receiver or the delete receiver has run to its end, both
\* `all_properties` and `property_count` are absent, and the recorded
\* deleted_keys are exactly the keys that were present when it started.
C4_HandlerDeletesBothKeys ==
    \A c \in Clients :
        HandlerReturned(c) =>
            /\ store[ALL].ttl = 0 /\ store[COUNT].ttl = 0
            /\ {cl[c].deleted[i] : i \in 1..Len(cl[c].deleted)} = cl[c].present0
            /\ Len(cl[c].deleted) = Cardinality(cl[c].present0)

C4_Witness ==
    /\ \E c \in Clients :
        /\ HandlerReturned(c) /\ cl[c].op = "delete"
        /\ cl[c].deleted = <<COUNT>>
    /\ lastMut = "ok"

\* C5: a mutation call never ends with an error raised by its invalidation
\* receiver: the receiver's failure is swallowed and the call returns.
C5_HandlerFailureSwallowed ==
    \A c \in Clients :
        ~(cl[c].op \in MutationOps /\ cl[c].pc = "done"
          /\ cl[c].at = "h" /\ cl[c].err # "none")

\* C6: invalidate() returns true exactly when `all_properties` was present, and
\* leaves it absent and every other key alone; called again with no getAll()
\* in between it returns false and changes nothing.
C6_InvalidateIdempotent ==
    [][\A c \in Clients :
        (cl[c].pc = "inv" /\ cl'[c].pc = "done" /\ ~cl'[c].sfail) =>
            /\ cl'[c].flag = (store[ALL].ttl > 0)
            /\ store'[ALL].ttl = 0
            /\ \A k \in Keys \ {ALL} : store'[k] = store[k]
            /\ (lastInv # "none" => (~cl'[c].flag /\ store' = store))
      ]_vars

C6_Witness ==
    \E c \in Clients : Done(c, "invalidate") /\ lastInv = "again" /\ ~cl[c].flag

\* C7: a getAll() that finds an unexpired `all_properties` entry calls the
\* Repository zero times, writes nothing to the Cache Store and returns the
\* cached sequence as stored.
C7_WarmGetAllTouchesNothing ==
    [][\A c \in Clients :
        (cl[c].pc = "ga_get" /\ cl'[c].pc # "ga_get"
         /\ store[ALL].ttl > 0 /\ ~cl'[c].sfail) =>
            /\ cl'[c].pc = AfterGetAll(cl[c].op)
            /\ cl'[c].calls = 0 /\ cl'[c].writes = 0
            /\ store' = store /\ rows' = rows
            /\ cl'[c].props = store[ALL].val[1]
      ]_vars

C7_Witness ==
    \E c \in Clients :
        /\ Done(c, "getAll") /\ cl[c].src = "cache"
        /\ cl[c].props = <<2, 1>> /\ cl[c].calls = 0

\* C8: after a receiver has fired, the next getAll() misses, calls
\* Repository.list() once, writes that result once under `all_properties` with
\* a timeout of 3600 s and returns it; a further getAll() with no mutation,
\* invalidation or expiry in between is a hit that makes no Repository call.
C8_OneFetchOneWriteThenHit ==
    [][\A c \in Clients :
        /\ (sinceMut = "fired" /\ cl[c].pc = "ga_get" /\ cl'[c].pc # "ga_get") =>
                cl'[c].pc = "ga_list"
        /\ (sinceMut = "fired" /\ cl[c].pc = "ga_list" /\ cl'[c].pc # "ga_list"
            /\ cl'[c].err = "none") =>
                /\ cl'[c].pc = "ga_set" /\ cl'[c].calls = 1
                /\ cl'[c].props = RepoList(rows)
        /\ (sinceMut = "fired" /\ cl[c].pc = "ga_set" /\ cl'[c].pc # "ga_set"
            /\ ~cl'[c].sfail) =>
                /\ store'[ALL] = [val |-> <<RepoList(rows)>>, ttl |-> 3600]
                /\ cl'[c].writes = 1 /\ cl'[c].calls = 1
                /\ cl'[c].props = RepoList(rows)
                /\ sinceMut' = "read"
        /\ (sinceMut = "read" /\ cl[c].pc = "ga_get" /\ cl'[c].pc # "ga_get"
            /\ ~cl'[c].sfail) =>
                /\ cl'[c].pc = AfterGetAll(cl[c].op)
                /\ cl'[c].calls = 0
                /\ cl'[c].props = RepoList(rows)
      ]_vars

C8_Witness ==
    \E c \in Clients :
        /\ Done(c, "getAll") /\ sinceMut = "read" /\ cl[c].src = "cache"
        /\ cl[c].props # <<>>

\* C9: no read (getAll() or a list endpoint built on it) ends with an error
\* because the Cache Store was unreachable.
C9_ReadsSurviveStoreFailure ==
    \A c \in Clients :
        (cl[c].op \in ReadOps /\ cl[c].pc = "done") =>
            cl[c].err # "StoreUnavailable"

\* C10: a getAll() or getCount() that missed the cache and finds the Repository
\* unreachable ends with that error (the caller gets no result in its place)
\* and writes nothing to the Cache Store.
C10_RepositoryFailurePropagates ==
    [][\A c \in Clients :
        /\ (cl[c].pc = "ga_list" /\ cl'[c].pc # "ga_list") =>
                \/ /\ cl'[c].pc = "ga_set" /\ cl'[c].err = "none"
                   /\ cl'[c].calls = cl[c].calls + 1
                   /\ cl'[c].props = RepoList(rows)
                \/ /\ cl'[c].pc = "done" /\ cl'[c].err = "RepositoryUnavailable"
                   /\ cl'[c].props = <<>> /\ cl'[c].writes = 0
                   /\ store' = store
        /\ (cl[c].pc = "gc_count" /\ cl'[c].pc # "gc_count") =>
                \/ /\ cl'[c].pc = "gc_set" /\ cl'[c].err = "none"
                   /\ cl'[c].calls = cl[c].calls + 1
                   /\ cl'[c].count = RepoCount(rows)
                \/ /\ cl'[c].pc = "done" /\ cl'[c].err = "RepositoryUnavailable"
                   /\ cl'[c].writes = cl[c].writes
                   /\ store' = store
      ]_vars

C10_Witness ==
    \E c \in Clients :
        /\ Done(c, "list_json") /\ cl[c].err = "RepositoryUnavailable"
        /\ cl[c].at = "ga_list" /\ rows # {}
        /\ store[PAGE_JSON].ttl = 0 /\ store[ALL].ttl = 0

\* ------------------------------------------------------ metrics claims
MtDone(op) == mt.pc = "done" /\ mt.op = op

\* get_redis_cache_metrics() has returned (to its caller or to the grader)
SnapshotReturned ==
    /\ mt.op \in {"snapshot", "effectiveness"}
    /\ mt.pc \in {"ef_grade", "done"}

GradeRank(g) ==
    CASE g = "A+" -> 5 [] g = "A" -> 4 [] g = "B" -> 3
      [] g = "C" -> 2 [] g = "D" -> 1 [] OTHER -> 0

C12_GradeByThresholds ==
    MtDone("effectiveness") =>
        LET h == mt.snap.hits
            t == mt.snap.total_operations
            hr == mt.snap.hit_ratio
            g == mt.grade
        IN  /\ g \in {"A+", "A", "B", "C", "D", "F"}
            /\ (g = "A+") = (t > 0 /\ 10 * h >= 9 * t)
            /\ (g = "A") = (t > 0 /\ 10 * h < 9 * t /\ 10 * h >= 8 * t)
            /\ (g = "B") = (t > 0 /\ 10 * h < 8 * t /\ 10 * h >= 7 * t)
            /\ (g = "C") = (t > 0 /\ 10 * h < 7 * t /\ 10 * h >= 5 * t)
            /\ (g = "D") = (t > 0 /\ 10 * h < 5 * t /\ 10 * h >= 3 * t)
            /\ (g = "F") = (t = 0 \/ 10 * h < 3 * t)
            /\ ((h = 90 /\ t = 100) => (hr = <<9, 10>> /\ g = "A+"))
            /\ (t = 0 => (hr = <<0, 1>> /\ g = "F"))
            /\ \A h2 \in 0..MaxHits, m2 \in 0..MaxMisses :
                    (h2 * t >= h * (h2 + m2) /\ h2 + m2 > 0 /\ t > 0) =>
                        GradeRank(Grade(TrueDiv(h2, h2 + m2))) >= GradeRank(g)

C12_Witness ==
    /\ MtDone("effectiveness") /\ ~mt.sfail
    /\ mt.snap.hits = 90 /\ mt.snap.misses = 10 /\ mt.grade = "A+"

\* C13: get_redis_cache_metrics() never raises; when the connection or the
\* INFO query failed it returns hits, misses, both ratios and total_operations
\* all 0 with an error field; a snapshot returned without failure has no error
\* field.
C13_SnapshotErrorIsZeroed ==
    /\ (mt.op \in {"snapshot", "effectiveness"} /\ mt.pc = "done") => mt.err = "none"
    /\ SnapshotReturned =>
        IF mt.sfail
        THEN /\ "error" \in DOMAIN mt.snap
             /\ mt.snap.hits = 0 /\ mt.snap.misses = 0
             /\ mt.snap.hit_ratio = <<0, 1>> /\ mt.snap.miss_ratio = <<0, 1>>
             /\ mt.snap.total_operations = 0
        ELSE /\ "error" \notin DOMAIN mt.snap
             /\ "hits" \in DOMAIN mt.snap

C13_Witness ==
    /\ MtDone("snapshot") /\ mt.sfail /\ mt.at = "sn_info"
    /\ mt.snap.error = "info" /\ mt.err = "none"

\* C14: reset_cache_metrics() never raises; it returns True exactly when the
\* connection was obtained and CONFIG RESETSTAT was issued and answered OK, and
\* False when the store was unreachable or rejected the command.
C14_ResetReportsOutcome ==
    MtDone("reset") =>
        /\ mt.err = "none"
        /\ mt.ok = (mt.issued /\ mt.reply = "OK")
        /\ (mt.at = "rs_conn" => ~mt.ok)
        /\ (mt.reply \in {"rejected", "unreachable"} => ~mt.ok)

C14_Witness ==
    MtDone("reset") /\ mt.issued /\ mt.reply = "rejected" /\ ~mt.ok

C16_SampleCleansUpOnFailure ==
    MtDone("monitor") => \A i \in mt.written : ~probe[i]

\* --------------------------------------------- clearAll, delete, readers
\* C17: clearAll() on a backend without delete_pattern returns normally without
\* touching any key in the pattern step; `all_properties` and `property_count`
\* are absent afterwards and the count returned is the number of those two keys
\* that were present.
C17_ClearAllWithoutPatternDelete ==
    [][\A c \in Clients :
        (cl[c].pc = "ca_pattern" /\ cl[c].arg = 0 /\ cl'[c] # cl[c]) =>
            /\ cl'[c].pc = "done" /\ cl'[c].err = "none"
            /\ store' = store
            /\ store'[ALL].ttl = 0 /\ store'[COUNT].ttl = 0
            /\ cl'[c].count = Cardinality(cl[c].present0)
            /\ cl'[c].count = cl[c].count
      ]_vars

C17_Witness ==
    \E c \in Clients :
        /\ Done(c, "clearAll") /\ cl[c].arg = 0 /\ cl[c].err = "none"
        /\ cl[c].count = 1 /\ cl[c].present0 = {COUNT}
        /\ store[PAGE_JSON].ttl > 0

\* C18 (as claimed): a response served from the Outer Response Cache is never
\* based on Repository data read longer ago than the Listing Cache's
\* time-to-live of 3600 s.
C18_OuterNoStalerThanInner ==
    \A c \in Clients :
        (cl[c].pc = "done" /\ cl[c].src = "page") => age[PROPS] <= AllPropertiesTTL

\* C18 (amended): a response served from the Outer Response Cache is never
\* based on Repository data read longer ago than the two time-to-lives added,
\* 3600 s + 900 s; an outer entry can outlive the inner entry it was built from.
C18_OuterStalenessAddsUp ==
    /\ \A c \in Clients :
        (cl[c].pc = "done" /\ cl[c].src = "page") =>
            /\ age[PROPS] <= AllPropertiesTTL + PageCacheTTL
            /\ age[PCOUNT] <= AllPropertiesTTL + PageCacheTTL
    /\ \A k \in PageKeys : age[k] <= AllPropertiesTTL + PageCacheTTL
    /\ age[ALL] <= AllPropertiesTTL

C18_Witness ==
    \E c \in Clients :
        /\ Done(c, "list_json") /\ cl[c].src = "page"
        /\ age[PROPS] > AllPropertiesTTL
        /\ ~Present(store, ALL) /\ Present(store, PAGE_JSON)

\* C19: a delete whose id is not in the Repository ends with NotFound (or with
\* the Repository's own failure when it cannot be reached), runs no receiver and
\* leaves the Repository and every cache entry as they were; NotFound is the
\* outcome of nothing else.
C19_DeleteOfAbsentIdIsNotFound ==
    [][\A c \in Clients :
        /\ (cl[c].pc = "dl_lookup" /\ cl'[c] # cl[c]) =>
                IF cl[c].arg \in rows
                THEN cl'[c].err # "NotFound"
                ELSE /\ cl'[c].pc = "done"
                     /\ cl'[c].err \in {"NotFound", "RepositoryUnavailable"}
                     /\ cl'[c].at = "dl_lookup"
                     /\ cl'[c].deleted = <<>> /\ cl'[c].hi = 1
                     /\ store' = store /\ rows' = rows
        /\ (cl'[c].err = "NotFound" /\ cl[c].err # "NotFound") =>
                (cl[c].pc = "dl_lookup" /\ cl[c].arg \notin rows)
      ]_vars

C19_Witness ==
    \E c \in Clients :
        /\ Done(c, "delete") /\ cl[c].err = "NotFound"
        /\ rows # {} /\ store[ALL].ttl > 0 /\ store[COUNT].ttl > 0
        /\ store[PAGE_HTML].ttl > 0

\* C20: with no mutation in progress, every getAll() that misses returns the
\* Repository's sequence, and whichever of the redundant writes lands last,
\* a present `all_properties` entry holds that same sequence.
C20_ConcurrentMissesWriteSameValue ==
    /\ \A c \in Clients :
        (Done(c, "getAll") /\ cl[c].err = "none") => cl[c].props = RepoList(rows)
    /\ \A c \in Clients :
        (cl[c].pc = "ga_set") => cl[c].props = RepoList(rows)
    /\ Present(store, ALL) => store[ALL].val = <<RepoList(rows)>>

C20_Witness ==
    /\ \A c \in Clients :
        /\ Done(c, "getAll") /\ cl[c].err = "none"
        /\ cl[c].calls = 1 /\ cl[c].writes = 1
    /\ rows # {}
    /\ Present(store, ALL)

\* C21: when clearAll() on a backend with delete_pattern has returned,
\* `all_properties`, `property_count` and the Outer Response Cache entries of
\* the list endpoints are absent, and the count returned is the number of the
\* two named keys that were present plus the number of entries the pattern
\* delete removed.
C21_ClearAllSweepsOuterCache ==
    \A c \in Clients :
        (Done(c, "clearAll") /\ cl[c].arg = 1 /\ cl[c].err = "none") =>
            /\ store[ALL].ttl = 0 /\ store[COUNT].ttl = 0
            /\ \A k \in PageKeys : store[k].ttl = 0
            /\ cl[c].count >= Cardinality(cl[c].present0)

\* C22: monitor_cache_performance(sample_size) returns a report for every
\* sample_size >= 0 when no store call fails; the report has cache_hits +
\* cache_misses = tests_performed = sample_size, and for sample_size = 0 hits,
\* misses and both ratios are 0.
C22_MonitorReportsForEverySize ==
    (MtDone("monitor") /\ ~mt.sfail) =>
        /\ mt.err = "none"
        /\ mt.report.tests_performed = mt.n
        /\ mt.report.cache_hits + mt.report.cache_misses = mt.n
        /\ (mt.n = 0 =>
                /\ mt.report.cache_hits = 0 /\ mt.report.cache_misses = 0
                /\ mt.report.hit_ratio[1] = 0 /\ mt.report.miss_ratio[1] = 0)

\* C23: in every list-html response the property_count equals the number of
\* listings in the properties of that response, whatever writes and expiries
\* fall between the view's two reads.
C23_HtmlCountMatchesListing ==
    \A c \in Clients :
        (Done(c, "list_html") /\ cl[c].err = "none" /\ ~cl[c].sfail) =>
            cl[c].count = Len(cl[c].props)

====
